---- MODULE Spec2Model ----
(***************************************************************************)
(* Namron 4512785 Zigbee2MQTT external converter, in its two variants:     *)
(*   "v140"   - the v1.4.0 converter (src/unnamed/part_000)                *)
(*   "legacy" - the hybrid/debug converter (src/namron_30a_relay.mjs)      *)
(*                                                                         *)
(* Three parts of the converter are modelled over one set of variables:    *)
(*   Spec          - onEvent, the poll-timer registry and the poll cycles  *)
(*   SpecConfigure - configure (bind, reporting configuration, reads)      *)
(*   SpecCodec     - convertSet / convertGet / fromZigbee (pure codec)     *)
(*                                                                         *)
(* JavaScript numbers are held in thousandths ("milli"): the number x is   *)
(* the integer 1000*x.  Every value the codec produces has at most three   *)
(* decimals, so the representation is exact for the modelled inputs.       *)
(***************************************************************************)
EXTENDS Integers, Sequences, FiniteSets, TLC

\* ------------------------------------------------------------------ bounds
\* setInterval handles ever created in one run
MaxTimers == 2
\* timer callbacks suspended on a read at the same time
MaxCycles == 1
\* integer raw meter readings 0..MaxRaw are decoded
MaxRaw == 40

\* ---------------------------------------------------------------- variants
V140 == "v140"
Legacy == "legacy"
Variants == {V140, Legacy}

VARIABLES
    variant,    \* which converter file the process has loaded
    poll,       \* globalThis.__namron4512785_poll__ : ieeeAddr -> timer handle
    timers,     \* every setInterval handle created: handle -> [dev, active]
    cycles,     \* timer callbacks suspended on `await ep.read(...)`
    last,       \* the step just taken (what was called, what it found)
    cfg,        \* the configure call in progress, or its outcome
    call        \* the codec call just made (convertSet/convertGet/fromZigbee)

\* ============================================================ onEvent model
\* Device identities (ieeeAddr values)
Idents == {"0xA1", "0xB2"}
\* device argument absent (undefined), or present without an ieeeAddr
NoDevice == "<undefined>"
NoAddr == "<no ieeeAddr>"
DeviceArgs == Idents \cup {NoDevice, NoAddr}

\* event types the host delivers
EventTypes == {"start", "stop", "deviceAnnounce", "message"}
\* onEvent(type, data, device)  or  onEvent({type, device, ...})
Forms == {"positional", "object"}
Events == [form : Forms, type : EventTypes, device : DeviceArgs]

NoStep == [op |-> "init", form |-> "-", type |-> "-", key |-> "-", had |-> FALSE,
           timer |-> 0, created |-> FALSE, cleared |-> FALSE, idx |-> 0,
           ok |-> TRUE, escaped |-> FALSE]

\* The event type the handler works with.
\* v140: unwraps an object event (lines 680-686); legacy: compares `type`
\* itself with strings, so an object never equals any of them.
EventType(v, ev) ==
    IF v = V140 THEN ev.type
    ELSE IF ev.form = "positional" THEN ev.type ELSE "<object>"

\* The device the handler works with: v140 takes type.device of an object
\* event; legacy reads only its third parameter.
EventDevice(v, ev) ==
    IF v = V140 THEN ev.device
    ELSE IF ev.form = "positional" THEN ev.device ELSE NoDevice

\* `!eventDevice || !eventDevice.ieeeAddr`  /  `const key = device?.ieeeAddr; if (!key)`
HasKey(dev) == dev \in Idents

\* v140 line 688: start and stop return before anything is looked at
ReturnsEarly(v, type) == v = V140 /\ type \in {"start", "stop"}

\* legacy line 689: the types that start polling (v140 has no such test:
\* every type that reaches line 704 starts polling)
IsStartBranch(type) == type \in {"start", "deviceAnnounce"}

\* the branch that clears: v140 line 696, legacy line 711
IsStopBranch(type) == type = "stop"

AlreadyPolling_never(key) == FALSE

\* `g.__namron4512785_poll__.has(key)` (v140 line 704, legacy line 690)
AlreadyPolling(key) == key \in DOMAIN poll

MapDelete_keeps(m, key) == m

\* Map.delete(key)
MapDelete(m, key) == [k \in (DOMAIN m) \ {key} |-> m[k]]
\* Map.set(key, value)
MapSet(m, key, val) == [k \in (DOMAIN m) \cup {key} |-> IF k = key THEN val ELSE m[k]]

ClearInterval_all(ts, h) == [i \in DOMAIN ts |-> [ts[i] EXCEPT !.active = FALSE]]

\* clearInterval(handle)
ClearInterval(ts, h) ==
    [i \in DOMAIN ts |-> IF i = h THEN [ts[i] EXCEPT !.active = FALSE] ELSE ts[i]]

EventStep(ev, key, had) ==
    [NoStep EXCEPT !.op = "onEvent", !.form = ev.form, !.type = ev.type,
                   !.key = key, !.had = had]

\* onEvent returns without touching anything
EventNoop(ev, key, had) ==
    /\ last' = EventStep(ev, key, had)
    /\ UNCHANGED <<poll, timers, cycles>>

\* setInterval(...) and registry.set(key, timer): one synchronous stretch
StartPolling(ev, key) ==
    /\ Len(timers) < MaxTimers
    /\ LET h == Len(timers) + 1 IN
        /\ timers' = Append(timers, [dev |-> key, active |-> TRUE])
        /\ poll' = MapSet(poll, key, h)
        /\ last' = [EventStep(ev, key, FALSE) EXCEPT !.timer = h, !.created = TRUE]
    /\ UNCHANGED cycles

\* v140 lines 697-700: has -> clearInterval(get) ; delete
StopPolling_v140(ev, key) ==
    IF key \in DOMAIN poll
    THEN /\ timers' = ClearInterval(timers, poll[key])
         /\ poll' = MapDelete(poll, key)
         /\ last' = [EventStep(ev, key, TRUE) EXCEPT !.timer = poll[key], !.cleared = TRUE]
         /\ UNCHANGED cycles
    ELSE EventNoop(ev, key, FALSE)

\* legacy lines 712-714: timer = get(key); if (timer) clearInterval(timer); delete(key)
StopPolling_legacy(ev, key) ==
    LET had == key \in DOMAIN poll
        h == IF had THEN poll[key] ELSE 0
    IN  /\ timers' = IF h # 0 THEN ClearInterval(timers, h) ELSE timers
        /\ poll' = MapDelete(poll, key)
        /\ last' = [EventStep(ev, key, had) EXCEPT !.timer = h, !.cleared = (h # 0)]
        /\ UNCHANGED cycles

\* onEvent of the v1.4.0 converter (src/unnamed/part_000 lines 679-719)
OnEvent_v140(ev) ==
    /\ variant = V140
    /\ LET type == EventType(V140, ev)
           dev == EventDevice(V140, ev)
           had == HasKey(dev) /\ dev \in DOMAIN poll
       IN  IF ~HasKey(dev) \/ ReturnsEarly(V140, type)
           THEN EventNoop(ev, dev, had)
           ELSE IF IsStopBranch(type)
           THEN StopPolling_v140(ev, dev)
           ELSE IF AlreadyPolling(dev)
           THEN EventNoop(ev, dev, TRUE)
           ELSE StartPolling(ev, dev)
    /\ UNCHANGED <<variant, cfg, call>>

\* onEvent of the legacy converter (src/namron_30a_relay.mjs lines 680-716)
OnEvent_legacy(ev) ==
    /\ variant = Legacy
    /\ LET type == EventType(Legacy, ev)
           dev == EventDevice(Legacy, ev)
           had == HasKey(dev) /\ dev \in DOMAIN poll
       IN  IF ~HasKey(dev)
           THEN EventNoop(ev, dev, had)
           ELSE IF IsStartBranch(type)
           THEN IF AlreadyPolling(dev)
                THEN EventNoop(ev, dev, TRUE)
                ELSE StartPolling(ev, dev)
           ELSE IF IsStopBranch(type)
           THEN StopPolling_legacy(ev, dev)
           ELSE EventNoop(ev, dev, had)
    /\ UNCHANGED <<variant, cfg, call>>

\* ------------------------------------------------------------- poll cycle
\* the reads one timer callback issues, in order (cluster, attributes)
PollBatch(v) ==
    IF v = V140
    THEN << [cluster |-> "msTemperatureMeasurement", attrs |-> <<0>>],
            [cluster |-> "0x04E0", attrs |-> <<0, 3>>] >>
    ELSE << [cluster |-> "haElectricalMeasurement", attrs |-> <<1285, 1288, 1291>>],
            [cluster |-> "seMetering", attrs |-> <<0>>],
            [cluster |-> "genDeviceTempCfg", attrs |-> <<0>>],
            [cluster |-> "msTemperatureMeasurement", attrs |-> <<0>>],
            [cluster |-> "0x04E0", attrs |-> <<0, 3>>] >>

PollErrorCaught_not(v) == FALSE

\* the callback body is one try { ... } catch (e) { } (v140 708-716, legacy 695-707)
PollErrorCaught(v) == TRUE

RemoveAt(s, i) == [j \in 1..(Len(s) - 1) |-> IF j < i THEN s[j] ELSE s[j + 1]]

\* An interval tick of an active timer: the callback looks the endpoint up;
\* without one it returns, otherwise it issues the first read and suspends.
Tick(h, hasEndpoint) ==
    /\ h \in DOMAIN timers
    /\ timers[h].active
    /\ Len(cycles) < MaxCycles
    /\ IF hasEndpoint
       THEN /\ cycles' = Append(cycles, [timer |-> h, dev |-> timers[h].dev, awaiting |-> 1])
            /\ last' = [NoStep EXCEPT !.op = "pollRead", !.key = timers[h].dev,
                                      !.timer = h, !.idx = 1]
       ELSE /\ cycles' = cycles
            /\ last' = [NoStep EXCEPT !.op = "pollNoEndpoint", !.key = timers[h].dev,
                                      !.timer = h]
    /\ UNCHANGED <<variant, poll, timers, cfg, call>>

ReadDone_continuesAfterFailure(i, ok) ==
    /\ i \in DOMAIN cycles
    /\ LET c == cycles[i]
           n == Len(PollBatch(variant))
       IN  IF c.awaiting < n
           THEN /\ cycles' = [cycles EXCEPT ![i].awaiting = c.awaiting + 1]
                /\ last' = [NoStep EXCEPT !.op = "pollRead", !.key = c.dev,
                                          !.timer = c.timer, !.idx = c.awaiting + 1,
                                          !.ok = ok]
           ELSE /\ cycles' = RemoveAt(cycles, i)
                /\ last' = [NoStep EXCEPT !.op = IF ok THEN "pollDone" ELSE "pollFailed",
                                          !.key = c.dev, !.timer = c.timer,
                                          !.idx = c.awaiting, !.ok = ok]
    /\ UNCHANGED <<variant, poll, timers, cfg, call>>

\* The read a suspended callback awaits completes.  Success: the next read
\* of the batch is issued, or the callback ends.  Failure: the catch block
\* ends the callback.
ReadDone(i, ok) ==
    /\ i \in DOMAIN cycles
    /\ LET c == cycles[i]
           n == Len(PollBatch(variant))
       IN  IF ok /\ c.awaiting < n
           THEN /\ cycles' = [cycles EXCEPT ![i].awaiting = c.awaiting + 1]
                /\ last' = [NoStep EXCEPT !.op = "pollRead", !.key = c.dev,
                                          !.timer = c.timer, !.idx = c.awaiting + 1]
           ELSE /\ cycles' = RemoveAt(cycles, i)
                /\ last' = [NoStep EXCEPT !.op = IF ok THEN "pollDone" ELSE "pollFailed",
                                          !.key = c.dev, !.timer = c.timer,
                                          !.idx = c.awaiting, !.ok = ok,
                                          !.escaped = (~ok /\ ~PollErrorCaught(variant))]
    /\ UNCHANGED <<variant, poll, timers, cfg, call>>


\* ========================================================== configure model
\* The requests configure issues, in source order.  kind: bind, report
\* (a reporting-configuration request) or read (an initial read).
\* reporting.temperature configures msTemperatureMeasurement.measuredValue,
\* reporting.rmsVoltage/rmsCurrent/activePower haElectricalMeasurement.
Req(kind, cluster, what) == [kind |-> kind, cluster |-> cluster, what |-> what]

\* configure of the v1.4.0 converter (src/unnamed/part_000 lines 582-675)
ConfigureRequests_v140 ==
    << Req("bind", "*", "reporting.bind"),
       Req("report", "genOnOff", "reporting.onOff"),
       Req("report", "msTemperatureMeasurement", "reporting.temperature"),
       Req("report", "haElectricalMeasurement", "reporting.rmsVoltage"),
       Req("report", "haElectricalMeasurement", "reporting.rmsCurrent"),
       Req("report", "haElectricalMeasurement", "reporting.activePower"),
       Req("report", "genDeviceTempCfg", "configureReporting 0x0002"),
       Req("report", "seMetering", "configureReporting 0x0702"),
       Req("report", "0x04E0", "configureReporting 0x04E0"),
       Req("read", "genOnOff", "0x0000"),
       Req("read", "genDeviceTempCfg", "0x0000"),
       Req("read", "msTemperatureMeasurement", "0x0000"),
       Req("read", "haElectricalMeasurement", "0x0505,0x0508,0x050B"),
       Req("read", "seMetering", "0x0000"),
       Req("read", "0x04E0", "0x0000,0x0003"),
       Req("read", "0x04E0", "0x0001,0x0002"),
       Req("read", "0x04E0", "0x0007,0x0008") >>

\* configure of the legacy converter (src/namron_30a_relay.mjs lines 622-677)
ConfigureRequests_legacy ==
    << Req("bind", "*", "reporting.bind"),
       Req("report", "genOnOff", "reporting.onOff"),
       Req("report", "msTemperatureMeasurement", "reporting.temperature"),
       Req("report", "haElectricalMeasurement", "reporting.rmsVoltage"),
       Req("report", "haElectricalMeasurement", "reporting.rmsCurrent"),
       Req("report", "haElectricalMeasurement", "reporting.activePower"),
       Req("report", "genDeviceTempCfg", "configureReporting 0x0002"),
       Req("report", "seMetering", "configureReporting 0x0702"),
       Req("read", "genOnOff", "0x0000"),
       Req("read", "genDeviceTempCfg", "0x0000"),
       Req("read", "msTemperatureMeasurement", "0x0000"),
       Req("read", "haElectricalMeasurement", "0x0505,0x0508,0x050B"),
       Req("read", "0x04E0", "0x0000,0x0003") >>

ConfigureRequests_readsFirst(v) ==
    << Req("bind", "*", "reporting.bind"),
       Req("read", "genOnOff", "0x0000"),
       Req("report", "genOnOff", "reporting.onOff") >>

ConfigureRequests(v) ==
    IF v = V140 THEN ConfigureRequests_v140 ELSE ConfigureRequests_legacy

\* the device object configure is given: whether device.endpoints is an
\* array, and whether findBestEndpoint finds an endpoint on it
DeviceShapes == [endpointsDefined : BOOLEAN, endpointFound : BOOLEAN]

StepCaught_bindEscapes(v, r) == r.kind # "bind"

\* every request sits in its own try/catch (bind: v140 582-593, legacy
\* 622-633; reporting: v140 596-654, legacy 636-660; reads: safeRead)
StepCaught(v, r) == TRUE

CfgIdle == [status |-> "idle", found |-> FALSE, issued |-> << >>, failed |-> {}]

\* configure is called: v140 logs device.endpoints.map(...) first (line
\* 574), which throws when endpoints is not an array; then both variants
\* look the endpoint up and return when there is none.
ConfigureCall(dev) ==
    /\ cfg.status \in {"idle", "returned", "threw"}
    /\ cfg' = IF variant = V140 /\ ~dev.endpointsDefined
              THEN [CfgIdle EXCEPT !.status = "threw"]
              ELSE IF ~dev.endpointFound
              THEN [CfgIdle EXCEPT !.status = "returned"]
              ELSE [CfgIdle EXCEPT !.status = "running", !.found = TRUE]
    /\ UNCHANGED <<variant, poll, timers, cycles, last, call>>

\* configure issues its next request and awaits it; the request succeeds
\* or fails.  A failure is caught and logged; the next request follows.
ConfigureStep(ok) ==
    /\ cfg.status = "running"
    /\ LET reqs == ConfigureRequests(variant)
           n == Len(cfg.issued) + 1
           r == reqs[n]
           issued == Append(cfg.issued, r)
           failed == IF ok THEN cfg.failed ELSE cfg.failed \cup {r.kind}
       IN  cfg' = IF ~ok /\ ~StepCaught(variant, r)
                  THEN [cfg EXCEPT !.status = "threw", !.issued = issued, !.failed = failed]
                  ELSE [cfg EXCEPT !.status = IF n = Len(reqs) THEN "returned" ELSE "running",
                                   !.issued = issued, !.failed = failed]
    /\ UNCHANGED <<variant, poll, timers, cycles, last, call>>


\* ============================================================== codec model
\* ---------------------------------------------------------- JavaScript values
\* A value is [t, n, s, pad]: t its kind; n a number in thousandths (for a
\* boolean 1000 or 0); s a string's text without surrounding whitespace;
\* pad whether the string carries surrounding whitespace.
Val(t, n, str, pad) == [t |-> t, n |-> n, s |-> str, pad |-> pad]
Undefined == Val("undefined", 0, "", FALSE)
Null == Val("null", 0, "", FALSE)
NaN == Val("nan", 0, "", FALSE)
Infinity == Val("infinity", 0, "", FALSE)
\* the number whose thousandfold is n
Milli(n) == Val("number", n, "", FALSE)
\* the integer k
Whole(k) == Milli(1000 * k)
Str(str) == Val("string", 0, str, FALSE)
Padded(str) == Val("string", 0, str, TRUE)
Bool(b) == Val("boolean", IF b THEN 1000 ELSE 0, "", FALSE)

\* typeof value
TypeOf(x) ==
    CASE x.t \in {"number", "nan", "infinity"} -> "number"
      [] x.t = "null" -> "object"
      [] OTHER -> x.t

\* value === undefined || value === null
IsNullish(x) == x.t \in {"undefined", "null"}

\* String.prototype.trim
Trim(x) == [x EXCEPT !.pad = FALSE]

\* the decimal literals among the modelled strings, in thousandths
DecimalText ==
    [str \in {"1", "7", "21.5", "200", "-3.5"} |->
        CASE str = "1" -> 1000 [] str = "7" -> 7000 [] str = "21.5" -> 21500
          [] str = "200" -> 200000 [] str = "-3.5" -> -3500]

\* Number(value): a number is itself, a boolean 1 or 0, null 0, undefined
\* NaN; a string is trimmed, "" is 0, a decimal literal its value, any
\* other text NaN
ToNumber(x) ==
    CASE TypeOf(x) = "number" -> x
      [] x.t = "boolean" -> Milli(x.n)
      [] x.t = "null" -> Whole(0)
      [] x.t = "undefined" -> NaN
      [] x.t = "string" ->
            IF x.s = "" THEN Whole(0)
            ELSE IF x.s \in DOMAIN DecimalText THEN Milli(DecimalText[x.s])
            ELSE NaN

\* Number.isFinite
IsFinite(x) == x.t = "number"

\* Math.round(num / den) for den > 0: the nearest integer, a tie going up
\* (towards +Infinity)
MathRound(num, den) == (2 * num + den) \div (2 * den)

\* --------------------------------------------------------------- enum maps
\* An enum map is the sequence of its [label, code] entries in source order.
E(label, code) == [label |-> label, code |-> code]

NTC_TYPE_MAP_dup(v) ==
    << E("None", 0), E("NTC-10K", 1), E("NTC-12K", 1), E("NTC-15K", 3) >>

NTC_TYPE_MAP(v) ==
    IF v = V140
    THEN << E("None", 0), E("NTC-10K", 1), E("NTC-12K", 2), E("NTC-15K", 3),
            E("NTC-22K", 4), E("NTC-33K", 5), E("NTC-47K", 6) >>
    ELSE << E("none", 0), E("ntc_10k", 1), E("ntc_12k", 2), E("ntc_15k", 3),
            E("ntc_22k", 4), E("ntc_33k", 5), E("ntc_47k", 6) >>

WATER_RELAY_ACTION_MAP(v) ==
    IF v = V140
    THEN << E("No action", 0),
            E("Water alarm: Turn OFF (restore when dry)", 1),
            E("Water alarm: Turn ON (restore when dry)", 2),
            E("Water alarm: Turn OFF (stay off)", 3),
            E("Water alarm: Turn ON (stay on)", 4),
            E("No water: Turn OFF", 5),
            E("No water: Turn ON", 6) >>
    ELSE << E("no_action", 0), E("alarm_turn_off", 1), E("alarm_turn_on", 2),
            E("alarm_turn_off_no_action", 3), E("alarm_turn_on_no_action", 4),
            E("no_alarm_turn_off", 5), E("no_alarm_turn_on", 6) >>

NTC1_OPERATION_MAP(v) ==
    IF v = V140
    THEN << E("No action", 0), E("OFF when hot, ON when cold", 1),
            E("ON when hot, OFF when cold", 2), E("OFF when hot (stay off)", 3),
            E("ON when hot (stay on)", 4) >>
    ELSE << E("unuse", 0), E("ntc1_1", 1), E("ntc1_2", 2), E("ntc1_3", 3),
            E("ntc1_4", 4) >>

NTC2_OPERATION_MAP(v) ==
    IF v = V140
    THEN << E("No action", 0), E("OFF when hot, ON when cold", 1),
            E("ON when hot, OFF when cold", 2), E("OFF when hot (stay off)", 3),
            E("ON when hot (stay on)", 4) >>
    ELSE << E("unuse", 0), E("ntc2_1", 1), E("ntc2_2", 2), E("ntc2_3", 3),
            E("ntc2_4", 4) >>

OVERRIDE_OPTION_MAP(v) ==
    IF v = V140
    THEN << E("No priority", 0), E("Water alarm has priority", 1),
            E("Temperature (NTC) has priority", 2) >>
    ELSE << E("no_priority", 0), E("water_alarm_priority", 1),
            E("ntc_priority", 2) >>

MapNames == {"NTC_TYPE", "WATER_RELAY_ACTION", "NTC1_OPERATION",
             "NTC2_OPERATION", "OVERRIDE_OPTION"}

EnumMap(v, name) ==
    CASE name = "NTC_TYPE" -> NTC_TYPE_MAP(v)
      [] name = "WATER_RELAY_ACTION" -> WATER_RELAY_ACTION_MAP(v)
      [] name = "NTC1_OPERATION" -> NTC1_OPERATION_MAP(v)
      [] name = "NTC2_OPERATION" -> NTC2_OPERATION_MAP(v)
      [] name = "OVERRIDE_OPTION" -> OVERRIDE_OPTION_MAP(v)

Labels(map) == {map[i].label : i \in DOMAIN map}
Codes(map) == {map[i].code : i \in DOMAIN map}

\* Object.prototype.hasOwnProperty.call(map, key)
HasOwn(map, key) == key \in Labels(map)

\* map[key]: the value of the entry written last under that label
MapGet(map, key) ==
    LET i == CHOOSE j \in DOMAIN map :
                 map[j].label = key /\ \A k \in DOMAIN map : map[k].label = key => k <= j
    IN  map[i].code

\* Object.entries(map).find(([, v]) => v === value): the first entry with
\* that code
FindByCode(map, code) ==
    LET i == CHOOSE j \in DOMAIN map :
                 map[j].code = code /\ \A k \in DOMAIN map : map[k].code = code => j <= k
    IN  map[i].label

\* ------------------------------------------------------------------ errors
NoError == [kind |-> "none", label |-> "", value |-> Undefined]
\* new Error(`[Namron4512785] missing value for ${label}`)
MissingError(label) == [kind |-> "missing", label |-> label, value |-> Undefined]
\* new Error(`[Namron4512785] invalid ${label}: ${value}`)
InvalidError(label, value) == [kind |-> "invalid", label |-> label, value |-> value]
\* new Error(`[Namron4512785] unsupported set key ${key}`)
UnsupportedError(key) == [kind |-> "unsupported", label |-> key, value |-> Undefined]
\* the rejection of entity.read / entity.write
TransportError(key) == [kind |-> "transport", label |-> key, value |-> Undefined]

Parsed(raw, text) == [ok |-> TRUE, raw |-> raw, text |-> text, err |-> NoError]
ParseFailed(err) == [ok |-> FALSE, raw |-> Undefined, text |-> Undefined, err |-> err]

parseEnumValue_anyNumber(value, map, label) ==
    IF IsNullish(value) THEN ParseFailed(MissingError(label))
    ELSE IF TypeOf(value) = "string" /\ HasOwn(map, Trim(value).s)
    THEN Parsed(Whole(MapGet(map, Trim(value).s)), Trim(value))
    ELSE IF TypeOf(value) = "number"
    THEN Parsed(value, value)
    ELSE ParseFailed(InvalidError(label, value))

\* parseEnumValue(value, map, label)
parseEnumValue(value, map, label) ==
    IF IsNullish(value) THEN ParseFailed(MissingError(label))
    ELSE IF TypeOf(value) = "string" /\ HasOwn(map, Trim(value).s)
    THEN Parsed(Whole(MapGet(map, Trim(value).s)), Trim(value))
    ELSE IF TypeOf(value) = "number" /\ value.t = "number"
            /\ value.n % 1000 = 0 /\ (value.n \div 1000) \in Codes(map)
    THEN Parsed(value, Str(FindByCode(map, value.n \div 1000)))
    ELSE ParseFailed(InvalidError(label, value))

\* Math.round(Math.log10(scale)) for the scales the converter passes
Log10Rounded(scale) ==
    CASE scale = 1 -> 0 [] scale = 10 -> 1 [] scale = 100 -> 2 [] scale = 1000 -> 3

Pow10(k) == CASE k = 0 -> 1 [] k = 1 -> 10 [] k = 2 -> 100 [] k = 3 -> 1000

parseNumeric_noFiniteCheck(value, label, scale) ==
    IF IsNullish(value) THEN ParseFailed(MissingError(label))
    ELSE Parsed(Whole(MathRound(ToNumber(value).n * scale, 1000)),
                Whole(MathRound(ToNumber(value).n * scale, 1000)))

parseNumeric_unscaled(value, label, scale) ==
    IF IsNullish(value) THEN ParseFailed(MissingError(label))
    ELSE IF ~IsFinite(ToNumber(value)) THEN ParseFailed(InvalidError(label, value))
    ELSE Parsed(Whole(MathRound(ToNumber(value).n, 1000)),
                Whole(MathRound(ToNumber(value).n, 1000)))

\* parseNumeric(value, label, scale = 1)
parseNumeric(value, label, scale) ==
    IF IsNullish(value) THEN ParseFailed(MissingError(label))
    ELSE LET num == ToNumber(value) IN
         IF ~IsFinite(num) THEN ParseFailed(InvalidError(label, value))
         ELSE LET raw == MathRound(num.n * scale, 1000)
                  factor == Pow10(Log10Rounded(scale))
                  \* Math.round((raw / scale) * factor) / factor
                  friendly == (MathRound(raw * factor, scale) * 1000) \div factor
              IN  IF scale = 1 THEN Parsed(Whole(raw), Whole(raw))
                  ELSE Parsed(Whole(raw), Milli(friendly))

\* -------------------------------------------------------------- convertSet
\* The cases of set_private_attribute.convertSet: the parser, its map or
\* scale, the attribute written and the DataType the v1.4.0 converter
\* passes (the legacy converter writes the bare value).
SetCase(parser, map, scale, attr, type) ==
    [parser |-> parser, map |-> map, scale |-> scale, attr |-> attr, type |-> type]

SetKeys == {"ntc1_sensor_type", "ntc2_sensor_type", "water_alarm_relay_action",
            "ntc1_operation_mode", "ntc2_operation_mode", "ntc1_relay_auto_temp",
            "ntc2_relay_auto_temp", "override_option", "ntc1_calibration",
            "ntc2_calibration", "ntc1_temp_hysteresis", "ntc2_temp_hysteresis"}

SetCases(key) ==
    CASE key = "ntc1_sensor_type" -> SetCase("enum", "NTC_TYPE", 1, 1, "ENUM8")
      [] key = "ntc2_sensor_type" -> SetCase("enum", "NTC_TYPE", 1, 2, "ENUM8")
      [] key = "water_alarm_relay_action" -> SetCase("enum", "WATER_RELAY_ACTION", 1, 6, "ENUM8")
      [] key = "ntc1_operation_mode" -> SetCase("enum", "NTC1_OPERATION", 1, 7, "ENUM8")
      [] key = "ntc2_operation_mode" -> SetCase("enum", "NTC2_OPERATION", 1, 8, "ENUM8")
      [] key = "ntc1_relay_auto_temp" -> SetCase("numeric", "", 100, 9, "INT16")
      [] key = "ntc2_relay_auto_temp" -> SetCase("numeric", "", 100, 10, "INT16")
      [] key = "override_option" -> SetCase("enum", "OVERRIDE_OPTION", 1, 11, "ENUM8")
      [] key = "ntc1_calibration" -> SetCase("numeric", "", 1, 4, "INT8")
      [] key = "ntc2_calibration" -> SetCase("numeric", "", 1, 5, "INT8")
      [] key = "ntc1_temp_hysteresis" -> SetCase("numeric", "", 1, 12, "INT8")
      [] key = "ntc2_temp_hysteresis" -> SetCase("numeric", "", 1, 13, "INT8")

\* the values a ZCL data type carries (DataType.ENUM8 / INT8 / INT16)
TypeRange(type) ==
    CASE type = "ENUM8" -> 0..255
      [] type = "INT8" -> (-128)..127
      [] type = "INT16" -> (-32768)..32767

WriteReq_nextAttr(v, c, raw) ==
    [cluster |-> "0x04E0", attr |-> c.attr + 1, value |-> raw,
     type |-> IF v = V140 THEN c.type ELSE "untyped"]

\* one entity.write(PRIVATE_CLUSTER_ID, {attr: ...})
WriteReq(v, c, raw) ==
    [cluster |-> "0x04E0", attr |-> c.attr, value |-> raw,
     type |-> IF v = V140 THEN c.type ELSE "untyped"]

NoState == << >>
StateOf(field, value) == [f \in {field} |-> value]

Outcome(threw, err, writes, reads, state) ==
    [threw |-> threw, err |-> err, writes |-> writes, reads |-> reads, state |-> state]

NoOutcome == Outcome(FALSE, NoError, << >>, << >>, NoState)

\* a codec call: the converter entry point, its arguments (key and value of
\* a convertSet/convertGet, data: the payload of a report or the result of
\* the read), whether the transport answered its read or write (ok), whether
\* it has run, and what came of it
Request(api, key, value, data) ==
    [api |-> api, key |-> key, value |-> value, data |-> data,
     ok |-> TRUE, done |-> FALSE, out |-> NoOutcome]

NoCall == Request("none", "", Undefined, << >>)

\* set_private_attribute.convertSet(entity, key, value): parse, then
\* await entity.write (which the transport may fail), then echo the text
convertSet(v, key, value, writeOk) ==
    IF key \notin SetKeys
    THEN Outcome(TRUE, UnsupportedError(key), << >>, << >>, NoState)
    ELSE LET c == SetCases(key)
             p == IF c.parser = "enum"
                  THEN parseEnumValue(value, EnumMap(v, c.map), key)
                  ELSE parseNumeric(value, key, c.scale)
         IN  IF ~p.ok THEN Outcome(TRUE, p.err, << >>, << >>, NoState)
             ELSE IF ~writeOk
             THEN Outcome(TRUE, TransportError(key), << WriteReq(v, c, p.raw) >>, << >>, NoState)
             ELSE Outcome(FALSE, NoError, << WriteReq(v, c, p.raw) >>, << >>,
                          StateOf(key, p.text))

\* the field names and values the codec is exercised with
UnsupportedKeys == {"voltage", "state"}
AllLabels == UNION {Labels(EnumMap(v, name)) : v \in Variants, name \in MapNames}
NumberInputs ==
    {-327690, -327680, -129000, -128000, -12500, -3500,
     -2500, -1000, -125, 0, 125, 300, 1000, 2000, 2500, 6000, 7000, 21500, 21550, 33300,
     100000, 127000, 128000, 200000, 327670, 327680}
SetInputs ==
    {Undefined, Null, NaN, Infinity, Bool(TRUE)}
    \cup {Milli(n) : n \in NumberInputs}
    \cup {Str(l) : l \in AllLabels} \cup {Padded(l) : l \in AllLabels}
    \cup {Str(t) : t \in DOMAIN DecimalText} \cup {Padded("21.5")}
    \cup {Str(""), Str("abc"), Str("NTC-99K"), Padded("")}

SetRequests ==
    {Request("convertSet", key, value, << >>) :
        key \in SetKeys \cup UnsupportedKeys, value \in SetInputs}

\* the pending convertSet call runs; the transport accepts or fails the write
ConvertSet(writeOk) ==
    /\ call.api = "convertSet" /\ ~call.done
    /\ call' = [call EXCEPT !.done = TRUE, !.ok = writeOk,
                            !.out = convertSet(variant, call.key, call.value, writeOk)]
    /\ UNCHANGED <<variant, poll, timers, cycles, last, cfg>>

\* --------------------------------------------------------------- read path
\* A payload (msg.data, or the result of entity.read) is a function from
\* property keys to values; a numeric attribute id is the key of its decimal
\* numeral (0x000A is "10").
NotFound == "<not found>"

\* hasAny(obj, keys)
hasAny(obj, keys) == \E i \in DOMAIN keys : keys[i] \in DOMAIN obj

pick_last(obj, keys) ==
    IF hasAny(obj, keys)
    THEN keys[CHOOSE i \in DOMAIN keys :
                 keys[i] \in DOMAIN obj /\ \A j \in DOMAIN keys : keys[j] \in DOMAIN obj => j <= i]
    ELSE NotFound

\* pick(obj, keys): the first of keys that obj has
pick(obj, keys) ==
    IF hasAny(obj, keys)
    THEN keys[CHOOSE i \in DOMAIN keys :
                 keys[i] \in DOMAIN obj /\ \A j \in DOMAIN keys : keys[j] \in DOMAIN obj => i <= j]
    ELSE NotFound

\* obj[pick(obj, keys)] and res?.[k]: the property, undefined when absent
PropertyOf(obj, k) == IF k \in DOMAIN obj THEN obj[k] ELSE Undefined

\* the integers whose decimal numeral is the property key String(x): an
\* integer number, or a string that spells one
IntKey(x) ==
    CASE x.t = "number" /\ x.n % 1000 = 0 -> {x.n \div 1000}
      [] x.t = "string" /\ ~x.pad /\ x.s \in DOMAIN DecimalText
            /\ DecimalText[x.s] % 1000 = 0 -> {DecimalText[x.s] \div 1000}
      [] OTHER -> {}

\* invert(map): Object.fromEntries of the [code, label] pairs, a later entry
\* replacing an earlier one with the same code
invert(map) ==
    [c \in Codes(map) |->
        map[CHOOSE i \in DOMAIN map :
               map[i].code = c /\ \A j \in DOMAIN map : map[j].code = c => j <= i].label]

EnumDecode_dropUnknown(map, raw) ==
    IF IntKey(raw) \cap DOMAIN invert(map) # {}
    THEN Str(invert(map)[CHOOSE c \in IntKey(raw) : TRUE])
    ELSE Undefined

\* X_INV[raw] ?? raw
EnumDecode(map, raw) ==
    IF IntKey(raw) \cap DOMAIN invert(map) # {}
    THEN Str(invert(map)[CHOOSE c \in IntKey(raw) : TRUE])
    ELSE raw

\* !!raw
Truthy(x) ==
    CASE x.t \in {"undefined", "null", "nan"} -> FALSE
      [] x.t = "infinity" -> TRUE
      [] x.t \in {"number", "boolean"} -> x.n # 0
      [] x.t = "string" -> x.s # "" \/ x.pad

IsSentinel_signedOnly(x) == x.t = "number" /\ x.n = -32768000

\* raw === -32768 || raw === 0x8000
IsSentinel(x) == x.t = "number" /\ x.n \in {-32768000, 32768000}

\* the conditions under which a handler emits its field
Guard(kind, raw) ==
    CASE kind = "always" -> TRUE
      [] kind = "defined" -> raw.t # "undefined"
      [] kind = "notNullish" -> ~IsNullish(raw)
      [] kind = "notNullNotSentinel" -> ~IsNullish(raw) /\ ~IsSentinel(raw)
      [] kind = "number" -> TypeOf(raw) = "number"
      [] kind = "numberNotSentinel" -> TypeOf(raw) = "number" /\ ~IsSentinel(raw)
      [] kind = "numberNotSentinelNotZero" ->
            TypeOf(raw) = "number" /\ ~IsSentinel(raw) /\ raw # Whole(0)

Scaled_threeDecimals(kind, n) ==
    CASE kind \in {"div100r1", "div10r1"} -> MathRound(n, 10000) * 100
      [] kind = "div100r2" -> MathRound(n, 100)
      [] OTHER -> MathRound(n, 1000)

\* the arithmetic of a decode rule on a number of n thousandths.  The
\* quotients are exact here; in IEEE doubles (raw / 1000) * 100 falls just
\* short of some ties (raw 2155 gives 2.15), so the raw values and inputs
\* modelled are ones on which the double arithmetic gives the exact result.
Scaled(kind, n) ==
    CASE kind = "div100r1" -> MathRound(n, 10000) * 100   \* Math.round((raw/100)*10)/10
      [] kind = "div100r2" -> MathRound(n, 1000) * 10     \* Math.round((raw/100)*100)/100
      [] kind = "div10r1" -> MathRound(n, 1000) * 100     \* Math.round((raw/10)*10)/10
      [] kind = "div1000r2" -> MathRound(n, 10000) * 10   \* Math.round((raw/1000)*100)/100
      [] kind = "div1000r3" -> MathRound(n, 1000)         \* Math.round((raw/1000)*1000)/1000
      [] kind = "div10" -> n \div 10                      \* raw/10

\* the value a handler emits for raw
Decode(v, kind, map, raw) ==
    CASE kind = "raw" -> raw
      [] kind = "not" -> Bool(~Truthy(raw))
      [] kind = "bool" -> Bool(Truthy(raw))
      [] kind = "enum" -> EnumDecode(EnumMap(v, map), raw)
      [] kind = "onoff" -> Str(IF Truthy(raw) THEN "ON" ELSE "OFF")
      [] OTHER -> LET num == ToNumber(raw) IN
                  IF num.t # "number" THEN num ELSE Milli(Scaled(kind, num.n))

\* one mapAndAssign of fzLocal.private_04e0_num, or one case of a
\* convertGet: the cluster and attribute, the keys looked for in the
\* payload, the field emitted, when and how
Attr(cluster, attr, keys, field, guard, decode, map) ==
    [cluster |-> cluster, attr |-> attr, keys |-> keys, field |-> field,
     guard |-> guard, decode |-> decode, map |-> map]

\* fzLocal.private_04e0_num: the mapAndAssign calls in source order
PrivateAttrs(v) ==
    << Attr("0x04E0", 0, <<"0", "measuredValue2", "ntc2Temperature">>,
            "ntc2_temperature", "numberNotSentinel", "div100r1", ""),
       Attr("0x04E0", 1, <<"1", "resistanceValue1">>,
            "ntc1_sensor_type", "notNullish", "enum", "NTC_TYPE"),
       Attr("0x04E0", 2, <<"2", "resistanceValue2">>,
            "ntc2_sensor_type", "notNullish", "enum", "NTC_TYPE"),
       Attr("0x04E0", 3, <<"3", "waterSensorValue", "waterSensor">>,
            "water_sensor", "always", IF v = V140 THEN "not" ELSE "bool", ""),
       Attr("0x04E0", 4, <<"4", "NTCCalibration1">>,
            "ntc1_calibration", "number", "raw", ""),
       Attr("0x04E0", 5, <<"5", "NTCCalibration2">>,
            "ntc2_calibration", "number", "raw", ""),
       Attr("0x04E0", 6, <<"6", "waterAlarmRelayAction">>,
            "water_alarm_relay_action", "notNullish", "enum", "WATER_RELAY_ACTION"),
       Attr("0x04E0", 7, <<"7", "ntc1OperationSelect">>,
            "ntc1_operation_mode", "notNullish", "enum", "NTC1_OPERATION"),
       Attr("0x04E0", 8, <<"8", "ntc2OperationSelect">>,
            "ntc2_operation_mode", "notNullish", "enum", "NTC2_OPERATION"),
       Attr("0x04E0", 9, <<"9", "ntc1RelayAutoTemp">>,
            "ntc1_relay_auto_temp", "numberNotSentinel", "div100r1", ""),
       Attr("0x04E0", 10, <<"10", "ntc2RelayAutoTemp">>,
            "ntc2_relay_auto_temp", "numberNotSentinel", "div100r1", ""),
       Attr("0x04E0", 11, <<"11", "overrideOption">>,
            "override_option", "notNullish", "enum", "OVERRIDE_OPTION"),
       Attr("0x04E0", 12, <<"12", "ntc1TempHysterisis">>,
            "ntc1_temp_hysteresis", "number", "raw", ""),
       Attr("0x04E0", 13, <<"13", "ntc2TempHysterisis">>,
            "ntc2_temp_hysteresis", "number", "raw", ""),
       Attr("0x04E0", 14, <<"14", "waterConditionAlarm">>,
            "water_condition_alarm", "notNullish", "bool", ""),
       Attr("0x04E0", 15, <<"15", "ntcConditionAlarm">>,
            "ntc_condition_alarm", "notNullish", "bool", ""),
       Attr("0x04E0", 16, <<"16", "isExecuteCondition">>,
            "is_execute_condition", "notNullish", "bool", "") >>

Assigns_noKeyCheck(a, data) == Guard(a.guard, PropertyOf(data, pick(data, a.keys)))

\* mapAndAssign(attrId, aliases, handler) assigns its field
Assigns(a, data) ==
    hasAny(data, a.keys) /\ Guard(a.guard, PropertyOf(data, pick(data, a.keys)))

\* the out object of a convert(model, msg) that looks up the attributes as
\* in msg.data: the fields assigned; an empty out is returned as undefined
ConvertWith(v, as, data) ==
    LET hit == {i \in DOMAIN as : Assigns(as[i], data)}
    IN  [f \in {as[i].field : i \in hit} |->
            LET a == as[CHOOSE i \in hit : as[i].field = f]
            IN  Decode(v, a.decode, a.map, PropertyOf(data, pick(data, a.keys)))]

\* fzLocal.private_04e0_num.convert(model, msg)
private_04e0_num(v, data) == ConvertWith(v, PrivateAttrs(v), data)

\* fzLocal.on_off_num: state from genOnOff attribute 0x0000
on_off_num(v) ==
    << Attr("genOnOff", 0, <<"0", "onOff">>, "state", "always", "onoff", "") >>

\* fzLocal.device_temp_num: device_temperature from attribute 0x0000
device_temp_num(v) ==
    << Attr("genDeviceTempCfg", 0, <<"0", "currentTemperature">>,
            "device_temperature", "notNullNotSentinel", "div10r1", "") >>

\* fzLocal.temp_measurement_num: ntc1_temperature from attribute 0x0000
temp_measurement_num(v) ==
    << Attr("msTemperatureMeasurement", 0, <<"0", "measuredValue">>,
            "ntc1_temperature", "notNullNotSentinel", "div100r1", "") >>

\* fzLocal.electrical_num: voltage (0x0505), current (0x0508) and power
\* (0x050B), each assigned whenever its key is present
electrical_num(v) ==
    << Attr("haElectricalMeasurement", 1285, <<"1285", "rmsVoltage">>,
            "voltage", "always", IF v = V140 THEN "div10" ELSE "div10r1", ""),
       Attr("haElectricalMeasurement", 1288, <<"1288", "rmsCurrent">>,
            "current", "always", IF v = V140 THEN "div1000r2" ELSE "div1000r3", ""),
       Attr("haElectricalMeasurement", 1291, <<"1291", "activePower">>,
            "power", "always", IF v = V140 THEN "raw" ELSE "div10r1", "") >>

\* fzLocal.metering_num: energy from seMetering attribute 0x0000
metering_num(v) ==
    << Attr("seMetering", 0,
            IF v = V140
            THEN <<"0", "currentSummationDelivered", "currentSummDelivered">>
            ELSE <<"0", "currentSummationDelivered">>,
            "energy", "number", IF v = V140 THEN "div100r2" ELSE "div1000r3", "") >>

FzConverters == {"on_off_num", "device_temp_num", "temp_measurement_num",
                 "private_04e0_num", "electrical_num", "metering_num"}

\* the attributes a converter of fzLocal looks for
FzAttrs(v, name) ==
    CASE name = "on_off_num" -> on_off_num(v)
      [] name = "device_temp_num" -> device_temp_num(v)
      [] name = "temp_measurement_num" -> temp_measurement_num(v)
      [] name = "private_04e0_num" -> PrivateAttrs(v)
      [] name = "electrical_num" -> electrical_num(v)
      [] name = "metering_num" -> metering_num(v)

\* fzLocal[name].convert(model, msg)
fromZigbee(v, name, data) ==
    IF name = "private_04e0_num" THEN private_04e0_num(v, data)
    ELSE ConvertWith(v, FzAttrs(v, name), data)

\* ---------------------------------------------------------------- convertGet
\* new Error(`Failed to read ${key}: ${err.message}`)
ReadFailedError(key) == [kind |-> "readFailed", label |-> key, value |-> Undefined]

\* the cases both converters read alike: the private attributes
PrivateGetCases(key) ==
    CASE key = "ntc1_sensor_type" ->
            Attr("0x04E0", 1, <<"1", "resistanceValue1">>, key, "notNullish", "enum", "NTC_TYPE")
      [] key = "ntc2_sensor_type" ->
            Attr("0x04E0", 2, <<"2", "resistanceValue2">>, key, "notNullish", "enum", "NTC_TYPE")
      [] key = "water_alarm_relay_action" ->
            Attr("0x04E0", 6, <<"6", "waterAlarmRelayAction">>, key, "notNullish", "enum",
                 "WATER_RELAY_ACTION")
      [] key = "ntc1_operation_mode" ->
            Attr("0x04E0", 7, <<"7", "ntc1OperationSelect">>, key, "notNullish", "enum",
                 "NTC1_OPERATION")
      [] key = "ntc2_operation_mode" ->
            Attr("0x04E0", 8, <<"8", "ntc2OperationSelect">>, key, "notNullish", "enum",
                 "NTC2_OPERATION")
      [] key = "ntc1_relay_auto_temp" ->
            Attr("0x04E0", 9, <<"9", "ntc1RelayAutoTemp">>, key, "numberNotSentinel",
                 "div100r1", "")
      [] key = "ntc2_relay_auto_temp" ->
            Attr("0x04E0", 10, <<"10", "ntc2RelayAutoTemp">>, key, "numberNotSentinel",
                 "div100r1", "")
      [] key = "override_option" ->
            Attr("0x04E0", 11, <<"11", "overrideOption">>, key, "notNullish", "enum",
                 "OVERRIDE_OPTION")
      [] key = "ntc1_calibration" ->
            Attr("0x04E0", 4, <<"4", "NTCCalibration1">>, key, "number", "raw", "")
      [] key = "ntc2_calibration" ->
            Attr("0x04E0", 5, <<"5", "NTCCalibration2">>, key, "number", "raw", "")
      [] key = "ntc1_temp_hysteresis" ->
            Attr("0x04E0", 12, <<"12", "ntc1TempHysterisis">>, key, "number", "raw", "")
      [] key = "ntc2_temp_hysteresis" ->
            Attr("0x04E0", 13, <<"13", "ntc2TempHysterisis">>, key, "number", "raw", "")
      [] key = "water_condition_alarm" ->
            Attr("0x04E0", 14, <<"14", "waterConditionAlarm">>, key, "notNullish", "bool", "")
      [] key = "ntc_condition_alarm" ->
            Attr("0x04E0", 15, <<"15", "ntcConditionAlarm">>, key, "notNullish", "bool", "")
      [] key = "is_execute_condition" ->
            Attr("0x04E0", 16, <<"16", "isExecuteCondition">>, key, "notNullish", "bool", "")

\* the measurement cases, which the two converters decode differently
MeasurementGetCases(v, key) ==
    CASE key = "device_temperature" ->
            Attr("genDeviceTempCfg", 0, <<"0", "currentTemperature">>, key,
                 "notNullNotSentinel", IF v = V140 THEN "raw" ELSE "div10r1", "")
      [] key = "ntc1_temperature" ->
            Attr("msTemperatureMeasurement", 0, <<"0", "measuredValue">>, key,
                 "notNullNotSentinel", IF v = V140 THEN "div100r2" ELSE "div100r1", "")
      [] key = "ntc2_temperature" ->
            Attr("0x04E0", 0, <<"0", "ntc2Temperature">>, key,
                 IF v = V140 THEN "numberNotSentinelNotZero" ELSE "numberNotSentinel",
                 IF v = V140 THEN "div100r2" ELSE "div100r1", "")
      [] key = "water_sensor" ->
            Attr("0x04E0", 3, <<"3", "waterSensor">>, key, "defined",
                 IF v = V140 THEN "not" ELSE "bool", "")
      [] key = "voltage" ->
            Attr("haElectricalMeasurement", 1285, <<"1285", "rmsVoltage">>, key, "number",
                 IF v = V140 THEN "div10" ELSE "div10r1", "")
      [] key = "current" ->
            Attr("haElectricalMeasurement", 1288, <<"1288", "rmsCurrent">>, key, "number",
                 IF v = V140 THEN "div1000r2" ELSE "div1000r3", "")
      [] key = "power" ->
            Attr("haElectricalMeasurement", 1291, <<"1291", "activePower">>, key, "number",
                 IF v = V140 THEN "raw" ELSE "div10r1", "")
      [] key = "energy" ->
            Attr("seMetering", 0,
                 <<"0", "currentSummationDelivered", "currentSummDelivered">>, key, "number",
                 IF v = V140 THEN "div100r2" ELSE "div1000r3", "")

MeasurementKeys == {"device_temperature", "ntc1_temperature", "ntc2_temperature",
                    "water_sensor", "voltage", "current", "power", "energy"}
AlarmKeys == {"water_condition_alarm", "ntc_condition_alarm", "is_execute_condition"}

\* the keys the tzLocal converters answer a get for
GetKeys == MeasurementKeys \cup SetKeys \cup AlarmKeys

GetCases(v, key) ==
    IF key \in MeasurementKeys THEN MeasurementGetCases(v, key) ELSE PrivateGetCases(key)

\* one entity.read(cluster, [attr])
ReadReq(c) == [cluster |-> c.cluster, attrs |-> <<c.attr>>]

\* convertGet(entity, key): await entity.read, which the transport may
\* fail (readOk) and otherwise answers with res; then pick, guard, decode.
\* The v1.4.0 converters rethrow a failure; the legacy converter logs it.
convertGet(v, key, res, readOk) ==
    IF key \notin GetKeys THEN NoOutcome
    ELSE LET c == GetCases(v, key)
             raw == PropertyOf(res, pick(res, c.keys))
         IN  IF ~readOk
             THEN IF v = V140
                  THEN Outcome(TRUE, ReadFailedError(key), << >>, << ReadReq(c) >>, NoState)
                  ELSE Outcome(FALSE, NoError, << >>, << ReadReq(c) >>, NoState)
             ELSE IF Guard(c.guard, raw)
             THEN Outcome(FALSE, NoError, << >>, << ReadReq(c) >>,
                          StateOf(key, Decode(v, c.decode, c.map, raw)))
             ELSE Outcome(FALSE, NoError, << >>, << ReadReq(c) >>, NoState)

\* ------------------------------------------------------- read-path inputs
\* raw values a payload carries: enum codes known and unknown, readings,
\* the two sentinels, and values that are not numbers
RawNumbers == {0, 1, 2, 4, 6, 9, 255, -50, 2150, 2165, 2319, 3290, -32768, 32768}
RawInputs ==
    {Whole(k) : k \in RawNumbers}
    \cup {Undefined, Null, NaN, Bool(TRUE), Bool(FALSE), Str("1"), Str("abc")}

Single(k, x) == [p \in {k} |-> x]
Pair(k1, x1, k2, x2) == [p \in {k1, k2} |-> IF p = k1 THEN x1 ELSE x2]

\* the property keys of the private attributes
PrivateKeys ==
    UNION {{PrivateAttrs(V140)[i].keys[j] : j \in DOMAIN PrivateAttrs(V140)[i].keys} :
              i \in DOMAIN PrivateAttrs(V140)}

\* reports of the private cluster: empty, one attribute, or a numeric id
\* together with an alias or another attribute
PrivatePayloads ==
    {<< >>}
    \cup {Single(k, x) : k \in PrivateKeys \cup {"unrelated"}, x \in RawInputs}
    \cup {Pair("0", Whole(2150), "ntc2Temperature", Whole(-50)),
          Pair("1", Whole(9), "resistanceValue1", Whole(1)),
          Pair("0", Whole(-32768), "1", Whole(2)),
          Pair("1", Whole(9), "3", Whole(1))}

\* the keys of a sequence of attribute descriptions
KeysOf(as) == UNION {{as[i].keys[j] : j \in DOMAIN as[i].keys} : i \in DOMAIN as}

\* raw values of the meter attributes: every integer up to MaxRaw and the
\* readings of the documented examples
MeterInputs ==
    RawInputs \cup {Whole(k) : k \in 0..MaxRaw} \cup {Whole(28427), Whole(-7)}

\* reports of the other clusters: empty, one attribute under any of the
\* keys either variant knows for the converter, or two properties
FzPayloads(name) ==
    IF name = "private_04e0_num" THEN PrivatePayloads
    ELSE {<< >>}
         \cup {Single(k, x) :
                  k \in KeysOf(FzAttrs(V140, name)) \cup KeysOf(FzAttrs(Legacy, name))
                         \cup {"unrelated"},
                  x \in IF name \in {"electrical_num", "metering_num"}
                        THEN MeterInputs ELSE RawInputs}
         \cup (IF name = "electrical_num"
                THEN {Pair("1285", Whole(2319), "rmsVoltage", Whole(9)),
                      Pair("1285", Whole(2319), "1288", Whole(3290)),
                      Pair("rmsCurrent", Whole(3290), "activePower", Whole(40))}
                ELSE IF name = "metering_num"
                THEN {Pair("0", Whole(28427), "currentSummDelivered", Whole(9))}
                ELSE IF name = "device_temp_num"
                THEN {Pair("0", Whole(255), "currentTemperature", Whole(9))}
                ELSE {})

FzRequests ==
    UNION {{Request("fromZigbee", name, Undefined, d) : d \in FzPayloads(name)} :
              name \in FzConverters}

\* the keys known anywhere, in either variant, for the attribute of a field
KnownKeys(field) ==
    UNION {KeysOf(SelectSeq(FzAttrs(v, name), LAMBDA a : a.field = field)) :
              v \in Variants, name \in FzConverters}
    \cup (IF field \in GetKeys THEN KeysOf(<< GetCases(V140, field) >>) ELSE {})

\* read results offered to convertGet(key): empty, or one property under
\* one of the keys known for the field, or under another name, or the
\* numeric id together with an alias
GetRequests ==
    UNION {{Request("convertGet", key, Undefined, d) :
               d \in {<< >>}
                      \cup {Single(k, x) :
                               k \in KnownKeys(key) \cup {"unrelated"},
                               x \in IF key \in {"voltage", "current", "power", "energy"}
                                     THEN MeterInputs ELSE RawInputs}
                      \cup {Pair(GetCases(V140, key).keys[1], Whole(2),
                                  GetCases(V140, key).keys[2], Whole(9))}} :
           key \in GetKeys}

\* an attribute report or read response is converted by the converter of
\* its cluster
FromZigbee ==
    /\ call.api = "fromZigbee" /\ ~call.done
    /\ call' = [call EXCEPT !.done = TRUE,
                            !.out = Outcome(FALSE, NoError, << >>, << >>,
                                            fromZigbee(variant, call.key, call.data))]
    /\ UNCHANGED <<variant, poll, timers, cycles, last, cfg>>

\* the pending convertGet call runs; the transport answers or fails the read
ConvertGet(readOk) ==
    /\ call.api = "convertGet" /\ ~call.done
    /\ call' = [call EXCEPT !.done = TRUE, !.ok = readOk,
                            !.out = convertGet(variant, call.key, call.data, readOk)]
    /\ UNCHANGED <<variant, poll, timers, cycles, last, cfg>>

\* ------------------------------------------------------------------- spec
InitPoll ==
    /\ poll = <<>>
    /\ timers = <<>>
    /\ cycles = <<>>
    /\ last = NoStep

Init ==
    /\ variant \in Variants
    /\ InitPoll
    /\ cfg = CfgIdle
    /\ call = NoCall

Next ==
    \/ \E ev \in Events : OnEvent_v140(ev)
    \/ \E ev \in Events : OnEvent_legacy(ev)
    \/ \E h \in 1..MaxTimers, ep \in BOOLEAN : Tick(h, ep)
    \/ \E i \in 1..MaxCycles, ok \in BOOLEAN : ReadDone(i, ok)

vars == <<variant, poll, timers, cycles, last, cfg, call>>

Spec == Init /\ [][Next]_vars

NextConfigure ==
    \/ \E dev \in DeviceShapes : ConfigureCall(dev)
    \/ \E ok \in BOOLEAN : ConfigureStep(ok)

SpecConfigure == Init /\ [][NextConfigure]_vars

\* the codec is a set of pure functions: each behaviour is one call, its
\* arguments drawn here
InitCodec ==
    /\ variant \in Variants
    /\ InitPoll
    /\ cfg = CfgIdle
    /\ call \in SetRequests \cup FzRequests \cup GetRequests

NextCodec ==
    \/ \E writeOk \in BOOLEAN : ConvertSet(writeOk)
    \/ FromZigbee
    \/ \E readOk \in BOOLEAN : ConvertGet(readOk)

SpecCodec == InitCodec /\ [][NextCodec]_vars

\* ================================================================= claims
\* active interval timers created for device identity d
ActiveTimersOf(d) == {h \in DOMAIN timers : timers[h].dev = d /\ timers[h].active}

\* the step just taken was onEvent called as onEvent(type, data, device)
\* with a device that carries an identity
PositionalEvent == last.op = "onEvent" /\ last.form = "positional" /\ HasKey(last.key)

\* C1: after any sequence of onEvent calls there is at most one active
\* interval timer per device identity, and an event for a device that is
\* already polling creates no second timer.
C1_AtMostOneTimer ==
    /\ \A d \in Idents : Cardinality(ActiveTimersOf(d)) <= 1
    /\ (last.op = "onEvent" /\ last.had) => ~last.created

\* C1 witness: a start event arrived for a device that was already polling
\* and the device still has exactly one active timer.
C1_Witness ==
    /\ last.op = "onEvent" /\ last.type = "start" /\ last.had
    /\ HasKey(last.key)
    /\ Cardinality(ActiveTimersOf(last.key)) = 1

\* C2 (as claimed): in both variants a stop event for a polling device
\* clears its interval timer and removes its registry entry.
C2_StopClearsTimer ==
    (PositionalEvent /\ last.type = "stop" /\ last.had) =>
        /\ last.key \notin DOMAIN poll
        /\ last.cleared
        /\ ActiveTimersOf(last.key) = {}

\* C3 (as claimed): in both variants an idle device starts polling on a
\* deviceAnnounce or start event, and no event of another type creates a
\* poll timer.
C3_StartTransitions ==
    PositionalEvent =>
        /\ (last.type \in {"start", "deviceAnnounce"} /\ ~last.had) =>
               (last.created /\ last.key \in DOMAIN poll)
        /\ (last.type \notin {"start", "deviceAnnounce"}) => ~last.created

\* a poll cycle ended on a failed read, or found no endpoint
PollFailureStep(l) == l.op \in {"pollFailed", "pollNoEndpoint"}

\* C4: a failed poll read (or a missing endpoint) never escapes the timer
\* callback and never changes the polling state: the registry and the
\* timers are as before, and the timer's next tick can still run a cycle.
C4_PollFailureContained ==
    /\ [][PollFailureStep(last') =>
            (poll' = poll /\ timers' = timers /\ ~last'.escaped)]_vars
    /\ [](PollFailureStep(last) /\ timers[last.timer].active =>
            ENABLED Tick(last.timer, TRUE))

\* C4 witness: a read of a poll cycle failed while the device is polling.
C4_Witness ==
    /\ last.op = "pollFailed" /\ ~last.ok
    /\ last.key \in DOMAIN poll
    /\ timers[last.timer].active

\* C5: once configure has found an endpoint, whatever sub-steps fail, every
\* later request is still attempted and configure returns normally; a bind
\* failure never keeps the reporting configuration and the reads from
\* being issued.
C5_ConfigureBestEffort ==
    cfg.found =>
        /\ cfg.status # "threw"
        /\ cfg.issued = SubSeq(ConfigureRequests(variant), 1, Len(cfg.issued))
        /\ cfg.status = "returned" => cfg.issued = ConfigureRequests(variant)

\* C5 witness: the bind, a reporting configuration and a read all failed,
\* and configure returned having issued every request.
C5_Witness ==
    /\ cfg.status = "returned" /\ cfg.found
    /\ cfg.failed = {"bind", "report", "read"}
    /\ cfg.issued = ConfigureRequests(variant)

\* ------------------------------------------------------- convertSet claims
SetDone == call.api = "convertSet" /\ call.done
EnumKeys == {k \in SetKeys : SetCases(k).parser = "enum"}
NumericKeys == {k \in SetKeys : SetCases(k).parser = "numeric"}
\* the map of the enum field the call is about
CallMap == EnumMap(variant, SetCases(call.key).map)
\* the code a map pairs with a label, and the label it pairs with a code
TheCode(map, label) == CHOOSE c \in Codes(map) : \E i \in DOMAIN map : map[i] = E(label, c)
TheLabel(map, code) == CHOOSE l \in Labels(map) : \E i \in DOMAIN map : map[i] = E(l, code)
\* the input is a number equal to a code of the map
IsCodeOf(map, x) == x.t = "number" /\ x.n % 1000 = 0 /\ (x.n \div 1000) \in Codes(map)
\* the input is, character for character, a label of the map
IsLabelOf(map, x) == x.t = "string" /\ ~x.pad /\ x.s \in Labels(map)
\* the input is a label of the map once surrounding whitespace is removed
IsLabelOfTrimmed(map, x) == x.t = "string" /\ x.s \in Labels(map)
\* the write request was issued
WriteIssued == call.out.writes # << >>

\* what an accepted enum convertSet must have written and echoed
EnumWrittenAndEchoed ==
    LET code == IF call.value.t = "string"
                THEN TheCode(CallMap, call.value.s) ELSE call.value.n \div 1000
    IN  /\ Len(call.out.writes) = 1
        /\ call.out.writes[1].attr = SetCases(call.key).attr
        /\ call.out.writes[1].value = Whole(code)
        /\ ~call.out.threw => call.out.state = StateOf(call.key, Str(TheLabel(CallMap, code)))

\* C6 (as claimed): convertSet for an enum field accepts the input exactly
\* when it is a label of the field's mapping or a valid code of it; it then
\* writes the numeric code and echoes the label.
C6_EnumAcceptsLabelOrCode ==
    (SetDone /\ call.key \in EnumKeys) =>
        /\ WriteIssued <=> (IsLabelOf(CallMap, call.value) \/ IsCodeOf(CallMap, call.value))
        /\ WriteIssued => EnumWrittenAndEchoed

\* C6 (amended): convertSet for an enum field accepts the input exactly
\* when it is a string that, with surrounding whitespace trimmed, is a label
\* of the field's mapping, or a number equal to a code of it; it then writes
\* the numeric code and echoes the (trimmed) label.  In the v1.4.0 converter
\* ntc1_sensor_type = "NTC-10K" writes 1 to attribute 0x0001 and echoes
\* "NTC-10K".
C6_EnumAcceptsTrimmedLabelOrCode ==
    /\ (SetDone /\ call.key \in EnumKeys) =>
        /\ WriteIssued <=>
              (IsLabelOfTrimmed(CallMap, call.value) \/ IsCodeOf(CallMap, call.value))
        /\ WriteIssued => EnumWrittenAndEchoed
    /\ (SetDone /\ variant = V140 /\ call.key = "ntc1_sensor_type"
            /\ call.value = Str("NTC-10K")) =>
        /\ call.out.writes = << [cluster |-> "0x04E0", attr |-> 1, value |-> Whole(1),
                                 type |-> "ENUM8"] >>
        /\ ~call.out.threw => call.out.state = StateOf("ntc1_sensor_type", Str("NTC-10K"))

\* C6 witness: ntc1_sensor_type = "NTC-10K" was set on the v1.4.0 converter
\* and echoed.
C6_Witness ==
    /\ SetDone /\ variant = V140 /\ call.key = "ntc1_sensor_type"
    /\ call.value = Str("NTC-10K")
    /\ ~call.out.threw
    /\ call.out.state = StateOf("ntc1_sensor_type", Str("NTC-10K"))

\* the integer convertSet encodes a finite numeric input to
EncodedRaw(key, x) == MathRound(ToNumber(x).n * SetCases(key).scale, 1000)

\* --------------------------------------------------------- enum map claims
\* no two entries of the map share a label or a code
IsBijection(map) ==
    \A i, j \in DOMAIN map :
        (map[i].label = map[j].label \/ map[i].code = map[j].code) => i = j

\* the property key under which a report carries private attribute attr
AttrKey(attr) ==
    PrivateAttrs(variant)[CHOOSE i \in DOMAIN PrivateAttrs(variant) :
                             PrivateAttrs(variant)[i].attr = attr].keys[1]

\* every map of the converter is a bijection, and decoding the code that
\* parseEnumValue yields for a label gives that label back
MapsRoundTrip ==
    \A name \in MapNames :
        LET map == EnumMap(variant, name) IN
        /\ IsBijection(map)
        /\ \A l \in Labels(map) :
              /\ parseEnumValue(Str(l), map, name).ok
              /\ EnumDecode(map, parseEnumValue(Str(l), map, name).raw) = Str(l)

\* a convertSet of a label wrote a value that a report carrying it under
\* the same attribute is converted back to that label
WrittenLabelReadBack ==
    (SetDone /\ call.key \in EnumKeys /\ IsLabelOf(CallMap, call.value)) =>
        /\ Len(call.out.writes) = 1
        /\ private_04e0_num(variant,
                Single(AttrKey(call.out.writes[1].attr), call.out.writes[1].value))
             = StateOf(call.key, call.value)

\* the convertSet failed with the invalid-value error and wrote nothing
RejectedAsInvalid ==
    /\ call.out.threw /\ ~WriteIssued
    /\ call.out.err = InvalidError(call.key, call.value)

\* C7 (as claimed): every enum map is a bijection between labels and codes;
\* decoding the code the write path encodes for a label of the map yields
\* that label; encoding a string that is not a label of the map fails with
\* an error.
C7_EnumMapsBijectiveRoundTrip ==
    /\ MapsRoundTrip
    /\ WrittenLabelReadBack
    /\ (SetDone /\ call.key \in EnumKeys /\ call.value.t = "string"
            /\ ~IsLabelOf(CallMap, call.value)) => RejectedAsInvalid

\* C7 (amended): every enum map is a bijection between labels and codes;
\* decoding the code the write path encodes for a label of the map yields
\* that label; encoding a string that, with surrounding whitespace
\* trimmed, is not a label of the map fails with an error.
C7_EnumMapsBijectiveRoundTripTrimmed ==
    /\ MapsRoundTrip
    /\ WrittenLabelReadBack
    /\ (SetDone /\ call.key \in EnumKeys /\ call.value.t = "string"
            /\ ~IsLabelOfTrimmed(CallMap, call.value)) => RejectedAsInvalid

\* C7 witness: the legacy converter was given the last label of its largest
\* map, wrote code 6, and a report of 6 under that attribute reads back as
\* the label.
C7_Witness ==
    /\ SetDone /\ variant = Legacy /\ call.key = "water_alarm_relay_action"
    /\ call.value = Str("no_alarm_turn_on")
    /\ Len(call.out.writes) = 1 /\ call.out.writes[1].value = Whole(6)
    /\ private_04e0_num(variant, Single("6", Whole(6)))
         = StateOf("water_alarm_relay_action", Str("no_alarm_turn_on"))

\* --------------------------------------------------------- read-path claims
FzDone == call.api = "fromZigbee" /\ call.done
GetDone == call.api = "convertGet" /\ call.done
\* raw is a number that is no code of the map
IsUnknownCode(map, raw) == TypeOf(raw) = "number" /\ ~IsCodeOf(map, raw)
\* the value the payload carries for an attribute description
CarriedRaw(a, data) == data[pick(data, a.keys)]

\* C8: on the read path an enum attribute whose raw code is not in its
\* mapping is emitted under its field name as the raw number unchanged: by
\* the report / read-response converter for every enum attribute the
\* payload carries, and by convertGet whenever the read is answered; it is
\* neither dropped nor an error.
C8_UnknownEnumCodePassedThrough ==
    /\ FzDone =>
          \A i \in DOMAIN PrivateAttrs(variant) :
              LET a == PrivateAttrs(variant)[i] IN
              (/\ a.decode = "enum" /\ hasAny(call.data, a.keys)
               /\ IsUnknownCode(EnumMap(variant, a.map), CarriedRaw(a, call.data)))
              => /\ ~call.out.threw
                 /\ a.field \in DOMAIN call.out.state
                 /\ call.out.state[a.field] = CarriedRaw(a, call.data)
    /\ (GetDone /\ call.ok /\ call.key \in EnumKeys) =>
          LET a == GetCases(variant, call.key) IN
          (/\ hasAny(call.data, a.keys)
           /\ IsUnknownCode(EnumMap(variant, a.map), CarriedRaw(a, call.data)))
          => /\ ~call.out.threw
             /\ call.out.state = StateOf(call.key, CarriedRaw(a, call.data))

\* C8 witness: a report carried code 9 for ntc1_sensor_type (attribute
\* 0x0001), which no map entry has, and the converter emitted 9.
C8_Witness ==
    /\ FzDone /\ call.data = Single("1", Whole(9))
    /\ call.out.state = StateOf("ntc1_sensor_type", Whole(9))

\* C8 witness on convertGet: the read of override_option was answered with
\* code 255 and the state returned is 255.
C8_WitnessGet ==
    /\ GetDone /\ call.ok /\ call.key = "override_option"
    /\ call.data = Single("overrideOption", Whole(255))
    /\ call.out.state = StateOf("override_option", Whole(255))

\* C9 (as claimed): convertSet for a numeric field, given an input that is
\* unparseable or whose encoded value is outside the range of the
\* attribute's wire type, fails with an error naming field and input and
\* writes nothing; no out-of-range value is ever written.
C9_NumericRejectsOutOfRange ==
    (SetDone /\ call.key \in NumericKeys /\ ~IsNullish(call.value)) =>
        /\ (\/ ~IsFinite(ToNumber(call.value))
            \/ EncodedRaw(call.key, call.value) \notin TypeRange(SetCases(call.key).type))
           => /\ call.out.threw
              /\ call.out.err = InvalidError(call.key, call.value)
              /\ ~WriteIssued
        /\ \A i \in DOMAIN call.out.writes :
              call.out.writes[i].value.n \div 1000 \in TypeRange(SetCases(call.key).type)

\* the value is one the write path must refuse (section 4.3: an enum input
\* is a label or a valid code, a numeric input is finite)
InvalidInput(key, x) ==
    IF key \in EnumKeys
    THEN ~(IsLabelOfTrimmed(EnumMap(variant, SetCases(key).map), x)
           \/ IsCodeOf(EnumMap(variant, SetCases(key).map), x))
    ELSE ~IsFinite(ToNumber(x))

C11_TransportFailureSurfaces ==
    /\ (GetDone /\ ~call.ok /\ call.key \in GetKeys) =>
          (call.out.threw /\ call.out.state = NoState)
    /\ (SetDone /\ ~call.ok /\ WriteIssued) =>
          (call.out.threw /\ call.out.state = NoState)

\* ------------------------------------------------------------ sentinel claim
TempFields == {"device_temperature", "ntc1_temperature", "ntc2_temperature",
               "ntc1_relay_auto_temp", "ntc2_relay_auto_temp"}
\* raw is one of the two "not available" markers
IsNoReading(raw) == raw \in {Whole(-32768), Whole(32768)}
\* the payload without the properties of attribute description a
Without(data, a) ==
    [k \in DOMAIN data \ {a.keys[j] : j \in DOMAIN a.keys} |-> data[k]]

\* C12: a scaled-temperature attribute whose raw value is 0x8000 or -32768
\* yields no value for its field: the report converter emits exactly what it
\* emits for the same report without that attribute (the other attributes
\* are still decoded), and convertGet returns no state and no error.
C12_SentinelYieldsNoReading ==
    /\ FzDone =>
          \A i \in DOMAIN FzAttrs(variant, call.key) :
              LET a == FzAttrs(variant, call.key)[i] IN
              (/\ a.field \in TempFields /\ hasAny(call.data, a.keys)
               /\ IsNoReading(CarriedRaw(a, call.data)))
              => /\ a.field \notin DOMAIN call.out.state
                 /\ call.out.state = fromZigbee(variant, call.key, Without(call.data, a))
    /\ (GetDone /\ call.ok /\ call.key \in TempFields) =>
          LET a == GetCases(variant, call.key) IN
          (hasAny(call.data, a.keys) /\ IsNoReading(CarriedRaw(a, call.data)))
          => (~call.out.threw /\ call.out.state = NoState)

\* C12 witness: a report of the private cluster carried -32768 for the NTC2
\* temperature and code 2 for the NTC1 sensor type; only the sensor type
\* was emitted.
C12_Witness ==
    /\ FzDone /\ variant = V140 /\ call.key = "private_04e0_num"
    /\ call.data = Pair("0", Whole(-32768), "1", Whole(2))
    /\ call.out.state = StateOf("ntc1_sensor_type", Str("NTC-12K"))

\* ------------------------------------------------------------ polarity claim
\* the water-sensor attribute as the path of the call describes it
WaterAttr ==
    IF call.api = "convertGet" THEN GetCases(variant, "water_sensor")
    ELSE PrivateAttrs(variant)[4]
\* the call decoded the water sensor from a payload that carries it
WaterDecoded ==
    /\ \/ FzDone /\ call.key = "private_04e0_num"
       \/ GetDone /\ call.ok /\ call.key = "water_sensor"
    /\ hasAny(call.data, WaterAttr.keys)

\* C13: in both variants water_sensor is decoded with inverted polarity, on
\* the report path and the convertGet path: raw 1 (true) gives false, raw 0
\* (false) gives true.
C13_WaterSensorInverted ==
    WaterDecoded =>
        /\ CarriedRaw(WaterAttr, call.data) \in {Whole(1), Bool(TRUE)} =>
              ("water_sensor" \in DOMAIN call.out.state
               /\ call.out.state["water_sensor"] = Bool(FALSE))
        /\ CarriedRaw(WaterAttr, call.data) \in {Whole(0), Bool(FALSE)} =>
              ("water_sensor" \in DOMAIN call.out.state
               /\ call.out.state["water_sensor"] = Bool(TRUE))

\* ------------------------------------------------------------ scaling claims
\* the converter of fzLocal that emits a field
ConverterOf(f) ==
    CHOOSE name \in FzConverters :
        \E i \in DOMAIN FzAttrs(variant, name) : FzAttrs(variant, name)[i].field = f
\* the attribute description of field f on the path of the call
FieldAttr(f) ==
    IF call.api = "convertGet" THEN GetCases(variant, f)
    ELSE FzAttrs(variant, ConverterOf(f))[
             CHOOSE i \in DOMAIN FzAttrs(variant, ConverterOf(f)) :
                 FzAttrs(variant, ConverterOf(f))[i].field = f]
\* the call was the report converter of field f, or an answered convertGet
\* of f, on a payload that carries a key of the field's attribute
FieldDecoded(f) ==
    /\ \/ FzDone /\ call.key = ConverterOf(f)
       \/ GetDone /\ call.ok /\ call.key = f
    /\ hasAny(call.data, FieldAttr(f).keys)
\* the raw value decoded for field f
RawOf(f) == CarriedRaw(FieldAttr(f), call.data)
\* x is an integer number
IsInteger(x) == x.t = "number" /\ x.n % 1000 = 0
\* field f was emitted with value x
Emitted(f, x) == f \in DOMAIN call.out.state /\ call.out.state[f] = x
\* the two read paths decode the payload of the call to the same value of f
PathsAgree(f) ==
    /\ f \in DOMAIN fromZigbee(variant, ConverterOf(f), call.data)
    /\ f \in DOMAIN convertGet(variant, f, call.data, TRUE).state
    /\ fromZigbee(variant, ConverterOf(f), call.data)[f]
          = convertGet(variant, f, call.data, TRUE).state[f]
\* |a - b|
Dist(a, b) == IF a >= b THEN a - b ELSE b - a

C14_WitnessReport ==
    /\ FzDone /\ variant = V140 /\ call.key = "metering_num"
    /\ call.data = Single("currentSummDelivered", Whole(28427))
    /\ call.out.state = StateOf("energy", Milli(284270))

\* C15: in both variants the power field equals the raw value of the
\* active-power attribute (0x050B), unscaled, on the report path and the
\* convertGet path.
C15_PowerUnscaled ==
    (FieldDecoded("power") /\ IsInteger(RawOf("power"))) =>
        Emitted("power", RawOf("power"))

\* ------------------------------------------------------- key resolver claims
\* the fields the read path emits
ReadFields == GetKeys \cup {"state"}
\* the attribute description of field f on the report path
FzAttrOf(f) ==
    FzAttrs(variant, ConverterOf(f))[
        CHOOSE i \in DOMAIN FzAttrs(variant, ConverterOf(f)) :
            FzAttrs(variant, ConverterOf(f))[i].field = f]
\* every key spelling the converter knows, on either path, for field f
KnownSpellings(f) ==
    KeysOf(<< FzAttrOf(f) >>)
    \cup (IF f \in GetKeys THEN KeysOf(<< GetCases(variant, f) >>) ELSE {})
\* what the path of the call makes of field f in payload d: the set holding
\* the value emitted, empty when none is
DecodedOn(f, d) ==
    LET st == IF call.api = "convertGet"
              THEN convertGet(variant, f, d, TRUE).state
              ELSE fromZigbee(variant, ConverterOf(f), d)
    IN  IF f \in DOMAIN st THEN {st[f]} ELSE {}
\* the call ran the read path of field f
OnPathOf(f) ==
    \/ FzDone /\ call.key = ConverterOf(f)
    \/ GetDone /\ call.ok /\ call.key = f

\* C16: for every field and every key spelling the converter knows for its
\* attribute, a payload with only that key decodes, on the report path and
\* on the convertGet path, to the same field value as a payload with only
\* the numeric-ID key.
C16_AliasDecodesAsNumericId ==
    \A f \in ReadFields :
        (/\ OnPathOf(f)
         /\ \E k \in KnownSpellings(f) : DOMAIN call.data = {k})
        => LET k == CHOOSE k \in KnownSpellings(f) : DOMAIN call.data = {k}
           IN  DecodedOn(f, call.data)
                  = DecodedOn(f, Single(FzAttrOf(f).keys[1], call.data[k]))

\* the decimal numeral of an attribute id
Numeral(n) ==
    CASE n = 0 -> "0" [] n = 1 -> "1" [] n = 2 -> "2" [] n = 3 -> "3" [] n = 4 -> "4"
      [] n = 5 -> "5" [] n = 6 -> "6" [] n = 7 -> "7" [] n = 8 -> "8" [] n = 9 -> "9"
      [] n = 10 -> "10" [] n = 11 -> "11" [] n = 12 -> "12" [] n = 13 -> "13"
      [] n = 14 -> "14" [] n = 15 -> "15" [] n = 16 -> "16"
      [] n = 1285 -> "1285" [] n = 1288 -> "1288" [] n = 1291 -> "1291"
\* every attribute description of the variant, on both paths
AllAttrs ==
    UNION {{FzAttrs(variant, name)[i] : i \in DOMAIN FzAttrs(variant, name)} :
              name \in FzConverters}
    \cup {GetCases(variant, key) : key \in GetKeys}
\* k is the first of keys that payload d has
IsFirstPresent(k, d, keys) ==
    \E i \in DOMAIN keys :
        /\ keys[i] = k /\ k \in DOMAIN d
        /\ \A j \in 1..(i - 1) : keys[j] \notin DOMAIN d

C18_NoKeysNoState ==
    FzDone =>
        LET as == FzAttrs(variant, call.key) IN
        /\ (\A i \in DOMAIN as : ~hasAny(call.data, as[i].keys)) => call.out.state = NoState
        /\ \A f \in DOMAIN call.out.state :
              \E i \in DOMAIN as :
                  /\ as[i].field = f
                  /\ \E j \in DOMAIN as[i].keys : as[i].keys[j] \in DOMAIN call.data

\* C18 witness: the electrical converter was given a report with none of
\* its keys and returned no state.
C18_Witness ==
    /\ FzDone /\ call.key = "electrical_num"
    /\ call.data = Single("unrelated", Whole(2319))
    /\ call.out.state = NoState

\* C18 witness with a state: a report of voltage and current gave exactly
\* those two fields.
C18_WitnessState ==
    /\ FzDone /\ call.key = "electrical_num"
    /\ call.data = Pair("1285", Whole(2319), "1288", Whole(3290))
    /\ DOMAIN call.out.state = {"voltage", "current"}

\* ----------------------------------------------------------- encode claims
RelayTempKeys == {"ntc1_relay_auto_temp", "ntc2_relay_auto_temp"}
\* x is a temperature of the valid range (0 to 100 degrees C) given to one
\* decimal
IsValidRelayTemp(x) == x.t = "number" /\ x.n % 100 = 0 /\ x.n >= 0 /\ x.n <= 100000

\* C19: for the relay_auto_temp fields and every x of the valid range
\* given to 0.1 degrees C, convertSet(x) writes x*100, and that raw value
\* decodes back to x on the report path and on the convertGet path.
C19_RelayTempRoundTrip ==
    (SetDone /\ call.key \in RelayTempKeys /\ IsValidRelayTemp(call.value)) =>
        LET key == Numeral(SetCases(call.key).attr) IN
        /\ Len(call.out.writes) = 1
        /\ call.out.writes[1].value = Milli(call.value.n * 100)
        /\ fromZigbee(variant, "private_04e0_num", Single(key, call.out.writes[1].value))
              = StateOf(call.key, call.value)
        /\ convertGet(variant, call.key, Single(key, call.out.writes[1].value), TRUE).state
              = StateOf(call.key, call.value)

\* C19 witness: 21.5 was set, 2150 written.
C19_Witness ==
    /\ SetDone /\ call.key = "ntc2_relay_auto_temp" /\ call.value = Milli(21500)
    /\ ~call.out.threw
    /\ call.out.writes[1].value = Whole(2150)

\* the input times the scale of the field, in thousandths
ScaledInput == call.value.n * SetCases(call.key).scale

\* C20: when the scaled input lies exactly halfway between two integers,
\* the raw value written is the integer farther from zero, for positive and
\* for negative inputs.
C20_HalfAwayFromZero ==
    (/\ SetDone /\ call.key \in NumericKeys /\ call.value.t = "number"
     /\ ScaledInput % 1000 = 500) =>
        /\ Len(call.out.writes) = 1
        /\ call.out.writes[1].value =
              IF ScaledInput > 0 THEN Milli(ScaledInput + 500) ELSE Milli(ScaledInput - 500)

\* -------------------------------------------- calibration / hysteresis claim
CalibrationKeys == {"ntc1_calibration", "ntc2_calibration",
                    "ntc1_temp_hysteresis", "ntc2_temp_hysteresis"}

\* C21: convertSet for the calibration fields (attributes 0x0004, 0x0005)
\* and the hysteresis fields (0x000C, 0x000D) writes the user value scaled
\* by 10 (raw = value * 10) as an int8.
C21_CalibrationScaledByTen ==
    (/\ SetDone /\ call.key \in CalibrationKeys
     /\ call.value.t = "number" /\ call.value.n % 100 = 0) =>
        /\ Len(call.out.writes) = 1
        /\ call.out.writes[1].attr \in {4, 5, 12, 13}
        /\ call.out.writes[1].value = Milli(call.value.n * 10)
        /\ variant = V140 => call.out.writes[1].type = "INT8"

\* ------------------------------------------------------ attribute id claim
\* C26: for every writable field the private-cluster attribute that
\* convertSet writes is the one convertGet reads for the field and the one
\* the report converter decodes into the field, and no two fields share an
\* attribute id.
C26_AttributeIdsAgree ==
    LET as == PrivateAttrs(variant)
        fieldAttr == [k \in SetKeys |-> {as[i].attr : i \in {j \in DOMAIN as : as[j].field = k}}]
    IN  /\ \A k \in SetKeys :
              /\ GetCases(variant, k).attr = SetCases(k).attr
              /\ GetCases(variant, k).cluster = "0x04E0"
              /\ fieldAttr[k] = {SetCases(k).attr}
        /\ \A k1, k2 \in SetKeys : SetCases(k1).attr = SetCases(k2).attr => k1 = k2
        /\ \A i, j \in DOMAIN as : as[i].attr = as[j].attr => i = j
        /\ (SetDone /\ WriteIssued) =>
              /\ call.out.writes[1].cluster = GetCases(variant, call.key).cluster
              /\ call.out.writes[1].attr = GetCases(variant, call.key).attr
              /\ {call.out.writes[1].attr} = fieldAttr[call.key]
        /\ (GetDone /\ call.key \in SetKeys) =>
              call.out.reads
                = << [cluster |-> "0x04E0", attrs |-> << SetCases(call.key).attr >>] >>

\* C26 witness: ntc2_temp_hysteresis was written to attribute 0x000D.
C26_Witness ==
    /\ SetDone /\ call.key = "ntc2_temp_hysteresis" /\ ~call.out.threw
    /\ call.out.writes[1].attr = 13
    /\ GetCases(variant, "ntc2_temp_hysteresis").attr = 13

\* ------------------------------------------------------ path agreement claim
\* C27: in the v1.4.0 converter, for every readable field and every raw
\* value (carried under the numeric id), convertGet returns the state that
\* the report converter produces for the same raw value: the same value, or
\* none on both paths.
C27_GetEqualsReport ==
    variant = V140 =>
        \A f \in GetKeys :
            (/\ OnPathOf(f)
             /\ DOMAIN call.data = {Numeral(FieldAttr(f).attr)})
            => LET fz == fromZigbee(variant, ConverterOf(f), call.data)
                   get == convertGet(variant, f, call.data, TRUE).state
               IN  /\ f \in DOMAIN fz <=> f \in DOMAIN get
                   /\ f \in DOMAIN fz => fz[f] = get[f]

\* -------------------------------------------------------------- echo claim
\* C28: for every writable field and every accepted input, the state that
\* convertSet echoes equals the state the read path decodes, in the report
\* converter and in convertGet, from the raw value that convertSet wrote.
C28_EchoEqualsReadBack ==
    (SetDone /\ ~call.out.threw) =>
        LET back == Single(Numeral(SetCases(call.key).attr), call.out.writes[1].value) IN
        /\ call.out.state = fromZigbee(variant, "private_04e0_num", back)
        /\ call.out.state = convertGet(variant, call.key, back, TRUE).state

\* --------------------------------------------------------- configure claims
\* C22: in the v1.4.0 converter configure never issues a
\* reporting-configuration request for cluster 0x0402
\* (msTemperatureMeasurement), on any path.
C22_NoTemperatureReportingConfig ==
    variant = V140 =>
        \A i \in DOMAIN cfg.issued :
            ~(cfg.issued[i].kind = "report"
              /\ cfg.issued[i].cluster = "msTemperatureMeasurement")

\* the phase of configure a request belongs to
Phase(r) == CASE r.kind = "bind" -> 1 [] r.kind = "report" -> 2 [] r.kind = "read" -> 3

\* C24: in every execution of configure the bind request is issued first,
\* then the reporting-configuration requests, then the initial reads: no
\* read precedes a reporting-configuration request, and every step of
\* configure issues exactly one further request, after the one before it
\* has completed or failed.
C24_ConfigureOrder ==
    /\ [](/\ \A i, j \in DOMAIN cfg.issued :
                i < j => Phase(cfg.issued[i]) <= Phase(cfg.issued[j])
          /\ cfg.issued # << >> => cfg.issued[1].kind = "bind"
          /\ \A i \in DOMAIN cfg.issued : cfg.issued[i].kind = "bind" => i = 1
          /\ (cfg.status = "returned" /\ cfg.found) =>
                \E i, j \in DOMAIN cfg.issued :
                    cfg.issued[i].kind = "report" /\ cfg.issued[j].kind = "read")
    /\ [][cfg'.issued # cfg.issued =>
            \/ cfg'.issued = << >>
            \/ /\ cfg.status = "running"
               /\ Len(cfg'.issued) = Len(cfg.issued) + 1
               /\ SubSeq(cfg'.issued, 1, Len(cfg.issued)) = cfg.issued]_vars

\* C24 witness: configure returned after a failed reporting configuration,
\* having gone through bind, reporting configuration and reads.
C24_Witness ==
    /\ cfg.status = "returned" /\ cfg.found
    /\ "report" \in cfg.failed
    /\ cfg.issued[1].kind = "bind"
    /\ cfg.issued[Len(cfg.issued)].kind = "read"

\* ----------------------------------------------------------- polling claims
\* C23: in every reachable state of each variant a device identity has a
\* registry entry if and only if it has an active interval timer, and the
\* entry holds that timer's handle; an entry appears only in the onEvent
\* step that creates the device's timer, disappears only in the onEvent
\* step that clears it, and is never replaced in between.
C23_RegistryMatchesTimers ==
    /\ [](/\ DOMAIN poll \subseteq Idents
          /\ \A d \in Idents :
                /\ d \in DOMAIN poll <=> ActiveTimersOf(d) # {}
                /\ d \in DOMAIN poll => ActiveTimersOf(d) = {poll[d]})
    /\ [][\A d \in Idents :
            /\ (d \notin DOMAIN poll /\ d \in DOMAIN poll') =>
                    /\ last'.op = "onEvent" /\ last'.key = d /\ last'.created
                    /\ poll'[d] = last'.timer
                    /\ last'.timer \notin DOMAIN timers
            /\ (d \in DOMAIN poll /\ d \notin DOMAIN poll') =>
                    /\ last'.op = "onEvent" /\ last'.key = d /\ last'.cleared
                    /\ last'.timer = poll[d]
                    /\ ~timers'[poll[d]].active
            /\ (d \in DOMAIN poll /\ d \in DOMAIN poll') => poll'[d] = poll[d]]_vars

\* C23 witness: one device's timer was cleared and its entry removed while
\* another device keeps its entry and its active timer.
C23_Witness ==
    /\ last.op = "onEvent" /\ last.cleared
    /\ last.key \notin DOMAIN poll
    /\ ~timers[last.timer].active
    /\ \E d \in DOMAIN poll : timers[poll[d]].active /\ timers[poll[d]].dev = d

\* C25 (as claimed): once a stop event for a device has been processed no
\* poll-driven read is issued for that device; in particular the step after
\* the stop is never a read of one of its poll cycles.
C25_NoReadAfterStop ==
    [][(PositionalEvent /\ last.type = "stop") =>
            ~(last'.op = "pollRead" /\ last'.key = last.key)]_vars

\* C29: an onEvent call carrying identity A leaves the registry entry and the
\* timers of every other identity B as they were, and an onEvent call with no
\* identity leaves the registry and the timers unchanged.
C29_OtherDevicesUntouched ==
    [][last'.op = "onEvent" =>
        /\ \A b \in Idents \ {last'.key} :
              /\ b \in DOMAIN poll <=> b \in DOMAIN poll'
              /\ b \in DOMAIN poll => poll'[b] = poll[b]
              /\ \A h \in DOMAIN timers : timers[h].dev = b => timers'[h] = timers[h]
              /\ \A h \in (DOMAIN timers') \ (DOMAIN timers) : timers'[h].dev # b
        /\ ~HasKey(last'.key) => (poll' = poll /\ timers' = timers)]_vars

\* C29 witness: a stop for one polling device was processed while another
\* device is polling; the other device's entry and timer are still there.
C29_Witness ==
    /\ last.op = "onEvent" /\ last.cleared /\ HasKey(last.key)
    /\ \E b \in Idents \ {last.key} :
          b \in DOMAIN poll /\ timers[poll[b]].active

\* C30: within one poll cycle the reads are issued one at a time in batch
\* order: a cycle starts with read 1, read k+1 is issued only in the step in
\* which read k completed successfully, a failed read removes the cycle (no
\* later read of its batch is issued), and a cycle completes only after the
\* last read of the batch.
C30_SequentialReads ==
    /\ [](\A i \in DOMAIN cycles : cycles[i].awaiting \in 1..Len(PollBatch(variant)))
    /\ [][/\ cycles' # cycles => last'.op \in {"pollRead", "pollDone", "pollFailed"}
          /\ (last'.op = "pollRead" /\ last'.idx = 1) =>
                cycles' = Append(cycles, [timer |-> last'.timer, dev |-> last'.key,
                                          awaiting |-> 1])
          /\ (last'.op = "pollRead" /\ last'.idx > 1) =>
                /\ last'.ok
                /\ \E i \in DOMAIN cycles :
                      /\ cycles[i].timer = last'.timer
                      /\ cycles[i].awaiting = last'.idx - 1
                      /\ cycles' = [cycles EXCEPT ![i].awaiting = last'.idx]
          /\ last'.op = "pollFailed" =>
                \E i \in DOMAIN cycles :
                      /\ cycles[i].timer = last'.timer
                      /\ cycles[i].awaiting = last'.idx
                      /\ cycles' = RemoveAt(cycles, i)
          /\ last'.op = "pollDone" =>
                /\ last'.idx = Len(PollBatch(variant))
                /\ \E i \in DOMAIN cycles :
                      /\ cycles[i].awaiting = last'.idx
                      /\ cycles' = RemoveAt(cycles, i)]_vars

\* C30 witness: a read that is not the last of its batch failed and the
\* cycle is gone.
C30_Witness ==
    /\ last.op = "pollFailed" /\ ~last.ok
    /\ last.idx < Len(PollBatch(variant))
    /\ \A i \in DOMAIN cycles : cycles[i].timer # last.timer

====
